---- MODULE Spec2Model ----
(***************************************************************************)
(* The step-timing ledger (VectorClockAgent) of vectorColcks, in its two   *)
(* variants: the in-memory one (src/main.go) and the SQLite-backed one     *)
(* (src/unnamed/part_000).                                                 *)
(*                                                                         *)
(* Spec      the ledger driven through its API (Start, End) by concurrent  *)
(*           callers that pass arbitrary arguments.                        *)
(* MainSpec  the program: main() constructing the agent, godog running     *)
(*           scenarios whose step hooks call Start and End, Report, Close  *)
(*           and process exit; the process may be run again on the same    *)
(*           database file.                                                *)
(***************************************************************************)
EXTENDS Integers, Naturals, Sequences, FiniteSets, TLC

(* ------------------------------ bounds --------------------------------- *)

\* concurrent callers (goroutines running steps)
NumWorkers == 2
\* Start calls per process run
MaxStarts == 2
\* End calls made directly by API callers per run
MaxEnds == 2
\* clock advances per behaviour
MaxTicks == 2
\* nanoseconds the clock advances at a time
TickNs == 600000
\* process runs on one database file
MaxRuns == 2

Workers == 1 .. NumWorkers

\* the (scenario name, step text) pairs of the feature files; "a" + "-" + "b-c"
\* and "a-b" + "-" + "c" format to the same prefix
StepArgs == {<<"a", "b-c">>, <<"a-b", "c">>}

(* ------------------------- values and helpers -------------------------- *)

\* time.Duration is a count of nanoseconds
NsPerMs == 1000000

\* CURRENT_TIMESTAMP has a resolution of one second
NsPerSec == 1000000000

\* the zero time.Time a failed type assertion leaves in startTime
ZeroTime == 0

\* exit status of a Go process that dies of an unrecovered panic
PanicExitCode == 2

\* the statuses godog's suite.Run() returns
SuiteStatuses == {0, 1, 2}

Digit(d) ==
    CASE d = 0 -> "0" [] d = 1 -> "1" [] d = 2 -> "2" [] d = 3 -> "3"
      [] d = 4 -> "4" [] d = 5 -> "5" [] d = 6 -> "6" [] d = 7 -> "7"
      [] d = 8 -> "8" [] OTHER -> "9"

\* fmt's %d of an unsigned integer
RECURSIVE FormatUint(_)
FormatUint(k) ==
    IF k < 10 THEN Digit(k) ELSE FormatUint(k \div 10) \o Digit(k % 10)

\* atomic.AddUint64(&v.counter, 1): the new value.  The counter is a uint64
\* and wraps after 2^64 additions; MaxStarts keeps every run far below that.
\* (variant: an add that is lost)
AtomicAddStale(c) == c
AtomicAddUint64(c) == c + 1

\* fmt.Sprintf("%s-%s-%d", scenarioName, stepText, count)
\* (variant: the count left out of the format)
SprintfNoCount(scenario, text, count) == scenario \o "-" \o text
Sprintf(scenario, text, count) ==
    scenario \o "-" \o text \o "-" \o FormatUint(count)

\* sync.Map: Store and Load
\* (variant: a Store that loses the entries of other keys)
StoreLosingOthers(m, k, v) == (k :> v)
MapStore(m, k, v) == (k :> v) @@ m

\* (variant: a Load whose miss goes unnoticed)
LoadAlwaysOk(m, k) ==
    [ok |-> TRUE, val |-> IF k \in DOMAIN m THEN m[k] ELSE ZeroTime]
MapLoad(m, k) ==
    IF k \in DOMAIN m THEN [ok |-> TRUE, val |-> m[k]]
    ELSE [ok |-> FALSE, val |-> ZeroTime]

EmptyMap == <<>>

\* time.Since(startTime) on the monotonic clock reading
\* (variant: the operands swapped)
SinceNegated(t, startTime) == startTime - t
Since(t, startTime) == t - startTime

\* (variant: milliseconds rounded to the nearest instead of truncated)
MillisecondsRounded(d) == (d + NsPerMs \div 2) \div NsPerMs

\* Duration.Milliseconds(): integer division of the nanosecond count
Milliseconds(d) == d \div NsPerMs

\* the rows of step_timings that carry step_id = id
RowsOf(rows, id) == {i \in DOMAIN rows : rows[i].step_id = id}

\* DEFAULT CURRENT_TIMESTAMP at clock reading t
CurrentTimestamp(t) == t \div NsPerSec

\* INSERT OR IGNORE INTO step_timings (step_id, scenario_name, step_text,
\* duration_ms): step_id is UNIQUE, id AUTOINCREMENT, created_at defaults to
\* the time of the insert
\* (variant: an insert that ignores the UNIQUE constraint)
InsertAlways(rows, id, scenario, text, ms, t) ==
    Append(rows, [id |-> Len(rows) + 1, step_id |-> id,
                  scenario_name |-> scenario, step_text |-> text,
                  duration_ms |-> ms, created_at |-> CurrentTimestamp(t)])
\* (variant: INSERT OR REPLACE, the later insert overwriting the row)
InsertOrReplace(rows, id, scenario, text, ms, t) ==
    IF RowsOf(rows, id) # {}
    THEN [i \in DOMAIN rows |->
            IF rows[i].step_id = id
            THEN [rows[i] EXCEPT !.scenario_name = scenario, !.step_text = text,
                                 !.duration_ms = ms, !.created_at = CurrentTimestamp(t)]
            ELSE rows[i]]
    ELSE Append(rows, [id |-> Len(rows) + 1, step_id |-> id,
                       scenario_name |-> scenario, step_text |-> text,
                       duration_ms |-> ms, created_at |-> CurrentTimestamp(t)])
InsertOrIgnore(rows, id, scenario, text, ms, t) ==
    IF RowsOf(rows, id) # {} THEN rows
    ELSE Append(rows, [id |-> Len(rows) + 1, step_id |-> id,
                       scenario_name |-> scenario, step_text |-> text,
                       duration_ms |-> ms, created_at |-> CurrentTimestamp(t)])

(* ------------------------------- state --------------------------------- *)

VARIABLES
    durable,      \* TRUE: the SQLite variant, FALSE: the in-memory variant
    counter,      \* v.counter
    startTimes,   \* v.startTimes
    durations,    \* v.durations
    db,           \* the rows of table step_timings in the database file
    dbOpen,       \* the *sql.DB handle is open
    now,          \* the clock, in nanoseconds
    ticks,        \* clock advances so far
    pc,           \* per worker: where it is in Start or End
    frame,        \* per worker: arguments and locals of the call it is in
    returned,     \* the StepIDs Start returned in this run, in order
    matchedEnds,  \* the StepIDs End was called with in this run after their
                  \* Start had stored its start time
    nEnds,        \* End calls made directly by API callers in this run
    mainPc,       \* where main() is
    agentSet,     \* the global agent points to a ledger
    status,       \* the status suite.Run() returned
    exitCode,     \* the exit code of the process
    scenarioName, \* per worker: the closure variable of InitializeScenario
    stepIDs,      \* per worker: the stepIDs map of InitializeScenario
    curStep,      \* per worker: the step the runner is executing
    hookStart,    \* per worker: what the before-step hook of the step in hand
                  \* passed to Start and got back
    hookLog,      \* what the before-step hooks of this run passed to Start and
                  \* got back
    output,       \* the entries Report() printed
    journal,      \* the calls main() made on the agent, in order
    run           \* number of the process run

ledgerVars == <<counter, startTimes, durations, db, dbOpen>>
callVars == <<pc, frame, returned, matchedEnds, nEnds>>
hookVars == <<scenarioName, stepIDs, curStep, hookStart, hookLog>>
mainVars == <<mainPc, agentSet, status, exitCode, output, journal, run>>
vars == <<durable, ledgerVars, now, ticks, callVars, hookVars, mainVars>>

\* no Start made by the before-step hook of the step in hand
NoStart == [id |-> "", scenario |-> "", text |-> ""]

\* no duration stored for a StepID
NoDuration == -1

NoFrame ==
    [stepID |-> "", scenarioName |-> "", stepText |-> "", startTime |-> 0,
     endTime |-> 0, duration |-> 0, calledAt |-> 0, priorDuration |-> NoDuration,
     outcome |-> "none"]

StartPcs == {"start_now", "start_store", "start_ret"}
EndPcs == {"end_since", "end_store", "end_exec", "end_ret"}

\* every StepID Start can format within the bounds, and one it cannot
CandidateIDs ==
    {Sprintf(a[1], a[2], k) : a \in StepArgs, k \in 1 .. MaxStarts} \cup {"nope"}

\* the (scenarioName, stepText) arguments of End; the in-memory End takes none
EndArgs ==
    IF durable THEN StepArgs ELSE {<<"", "">>}

(* ------------------------------ the clock ------------------------------ *)

Tick ==
    /\ ticks < MaxTicks
    /\ now' = now + TickNs
    /\ ticks' = ticks + 1
    /\ UNCHANGED <<durable, ledgerVars, callVars, hookVars, mainVars>>

(* ------------------------------- Start --------------------------------- *)

\* generateStepID: the StepID for the counter value the atomic add returns
generateStepID(scenario, text, c) == Sprintf(scenario, text, AtomicAddUint64(c))

\* Start, entered by worker w: stepID := v.generateStepID(scenarioName, stepText)
EnterStart(w, scenario, text) ==
    /\ counter < MaxStarts
    /\ counter' = AtomicAddUint64(counter)
    /\ frame' = [frame EXCEPT ![w] =
                    [NoFrame EXCEPT !.stepID = generateStepID(scenario, text, counter),
                                    !.scenarioName = scenario,
                                    !.stepText = text]]
    /\ pc' = [pc EXCEPT ![w] = "start_now"]

\* the argument time.Now() of v.startTimes.Store is evaluated
StartNow(w) ==
    /\ pc[w] = "start_now"
    /\ frame' = [frame EXCEPT ![w].startTime = now]
    /\ pc' = [pc EXCEPT ![w] = "start_store"]
    /\ UNCHANGED <<durable, ledgerVars, now, ticks, returned, matchedEnds, nEnds,
                   hookVars, mainVars>>

\* v.startTimes.Store(stepID, <that time>); return stepID
StartStore(w) ==
    /\ pc[w] = "start_store"
    /\ startTimes' = MapStore(startTimes, frame[w].stepID, frame[w].startTime)
    /\ pc' = [pc EXCEPT ![w] = "start_ret"]
    /\ returned' = Append(returned, [id |-> frame[w].stepID, at |-> now])
    /\ UNCHANGED matchedEnds
    /\ UNCHANGED <<durable, counter, durations, db, dbOpen, now, ticks, frame, nEnds,
                   hookVars, mainVars>>

(* -------------------------------- End ---------------------------------- *)

\* End, entered by worker w: val, ok := v.startTimes.Load(stepID); on a miss
\* it prints and returns
EnterEnd(w, id, scenario, text) ==
    LET l == MapLoad(startTimes, id) IN
    /\ frame' = [frame EXCEPT ![w] =
                    [NoFrame EXCEPT !.stepID = id,
                                    !.scenarioName = scenario,
                                    !.stepText = text,
                                    !.startTime = l.val,
                                    !.calledAt = now,
                                    !.priorDuration =
                                        IF l.ok /\ id \in DOMAIN durations
                                        THEN durations[id] ELSE NoDuration,
                                    !.outcome = IF l.ok THEN "none" ELSE "miss"]]
    /\ pc' = [pc EXCEPT ![w] = IF l.ok THEN "end_since" ELSE "end_ret"]
    /\ matchedEnds' = IF \E i \in DOMAIN returned : returned[i].id = id
                      THEN matchedEnds \cup {id} ELSE matchedEnds

\* duration := time.Since(startTime)
EndSince(w) ==
    /\ pc[w] = "end_since"
    /\ frame' = [frame EXCEPT ![w].endTime = now,
                              ![w].duration = Since(now, frame[w].startTime)]
    /\ pc' = [pc EXCEPT ![w] = "end_store"]
    /\ UNCHANGED <<durable, ledgerVars, now, ticks, returned, matchedEnds, nEnds,
                   hookVars, mainVars>>

\* (variant: an End that evicts the start time of the step it ends)
EndStoreEvicting(w) ==
    /\ pc[w] = "end_store"
    /\ durations' = MapStore(durations, frame[w].stepID, frame[w].duration)
    /\ startTimes' = [id \in DOMAIN startTimes \ {frame[w].stepID} |-> startTimes[id]]
    /\ pc' = [pc EXCEPT ![w] = IF durable THEN "end_exec" ELSE "end_ret"]
    /\ frame' = [frame EXCEPT ![w].outcome = IF durable THEN "none" ELSE "ok"]
    /\ UNCHANGED <<durable, counter, db, dbOpen, now, ticks, returned, matchedEnds,
                   nEnds, hookVars, mainVars>>

\* v.durations.Store(stepID, duration); the in-memory End prints and returns
EndStore(w) ==
    /\ pc[w] = "end_store"
    /\ durations' = MapStore(durations, frame[w].stepID, frame[w].duration)
    /\ pc' = [pc EXCEPT ![w] = IF durable THEN "end_exec" ELSE "end_ret"]
    /\ frame' = [frame EXCEPT ![w].outcome = IF durable THEN "none" ELSE "ok"]
    /\ UNCHANGED <<durable, counter, startTimes, db, dbOpen, now, ticks, returned,
                   matchedEnds, nEnds, hookVars, mainVars>>

\* (variant: an End that dies on Exec's error)
EndExecFatal(w) ==
    /\ pc[w] = "end_exec"
    /\ \E fails \in IF dbOpen THEN BOOLEAN ELSE {TRUE} :
          /\ db' = IF fails THEN db
                    ELSE InsertOrIgnore(db, frame[w].stepID, frame[w].scenarioName,
                                        frame[w].stepText,
                                        Milliseconds(frame[w].duration), now)
          /\ frame' = [frame EXCEPT ![w].outcome = IF fails THEN "dberr" ELSE "ok"]
          /\ pc' = [pc EXCEPT ![w] = IF fails THEN "crashed" ELSE "end_ret"]
    /\ UNCHANGED <<durable, counter, startTimes, durations, dbOpen, now, ticks, returned,
                   matchedEnds, nEnds, hookVars, mainVars>>

\* v.db.Exec(INSERT OR IGNORE ...): the statement runs, or Exec returns an
\* error (always so on a closed handle), which End prints; End returns
EndExec(w) ==
    /\ pc[w] = "end_exec"
    /\ \E fails \in IF dbOpen THEN BOOLEAN ELSE {TRUE} :
          /\ db' = IF fails THEN db
                    ELSE InsertOrIgnore(db, frame[w].stepID, frame[w].scenarioName,
                                        frame[w].stepText,
                                        Milliseconds(frame[w].duration), now)
          /\ frame' = [frame EXCEPT ![w].outcome = IF fails THEN "dberr" ELSE "ok"]
    /\ pc' = [pc EXCEPT ![w] = "end_ret"]
    /\ UNCHANGED <<durable, counter, startTimes, durations, dbOpen, now, ticks, returned,
                   matchedEnds, nEnds, hookVars, mainVars>>

(* ------------------- the ledger driven through its API ----------------- *)

ApiStart(w) ==
    /\ mainPc = "api"
    /\ pc[w] = "idle"
    /\ \E a \in StepArgs : EnterStart(w, a[1], a[2])
    /\ UNCHANGED <<durable, startTimes, durations, db, dbOpen, now, ticks, returned,
                   matchedEnds, nEnds, hookVars, mainVars>>

ApiStartReturn(w) ==
    /\ mainPc = "api"
    /\ pc[w] = "start_ret"
    /\ pc' = [pc EXCEPT ![w] = "idle"]
    /\ frame' = [frame EXCEPT ![w] = NoFrame]
    /\ UNCHANGED <<durable, ledgerVars, now, ticks, returned, matchedEnds, nEnds,
                   hookVars, mainVars>>

ApiEnd(w) ==
    /\ mainPc = "api"
    /\ pc[w] = "idle"
    /\ nEnds < MaxEnds
    /\ nEnds' = nEnds + 1
    /\ \E id \in CandidateIDs, a \in EndArgs : EnterEnd(w, id, a[1], a[2])
    /\ UNCHANGED <<durable, ledgerVars, now, ticks, returned, hookVars, mainVars>>

ApiEndReturn(w) ==
    /\ mainPc = "api"
    /\ pc[w] = "end_ret"
    /\ pc' = [pc EXCEPT ![w] = "idle"]
    /\ frame' = [frame EXCEPT ![w] = NoFrame]
    /\ UNCHANGED <<durable, ledgerVars, now, ticks, returned, matchedEnds, nEnds,
                   hookVars, mainVars>>

\* a constructed ledger (the database opened and empty), no call made yet
Init ==
    /\ durable \in BOOLEAN
    /\ counter = 0
    /\ startTimes = EmptyMap
    /\ durations = EmptyMap
    /\ db = <<>>
    /\ dbOpen = durable
    /\ now = 0
    /\ ticks = 0
    /\ pc = [w \in Workers |-> "idle"]
    /\ frame = [w \in Workers |-> NoFrame]
    /\ returned = <<>>
    /\ matchedEnds = {}
    /\ nEnds = 0
    /\ mainPc = "api"
    /\ agentSet = TRUE
    /\ status = 0
    /\ exitCode = -1
    /\ scenarioName = [w \in Workers |-> ""]
    /\ stepIDs = [w \in Workers |-> EmptyMap]
    /\ curStep = [w \in Workers |-> 0]
    /\ hookStart = [w \in Workers |-> NoStart]
    /\ hookLog = {}
    /\ output = {}
    /\ journal = <<>>
    /\ run = 1

Next ==
    \/ Tick
    \/ \E w \in Workers : ApiStart(w)
    \/ \E w \in Workers : StartNow(w)
    \/ \E w \in Workers : StartStore(w)
    \/ \E w \in Workers : ApiStartReturn(w)
    \/ \E w \in Workers : ApiEnd(w)
    \/ \E w \in Workers : EndSince(w)
    \/ \E w \in Workers : EndStore(w)
    \/ \E w \in Workers : EndExec(w)
    \/ \E w \in Workers : ApiEndReturn(w)

Spec == Init /\ [][Next]_vars

\* v.db.Exec of End returning no error
EndExecOk(w) == EndExec(w) /\ frame'[w].outcome = "ok"

\* the ledger driven through its API on a store whose inserts never fail
NoFailNext ==
    \/ Tick
    \/ \E w \in Workers : ApiStart(w)
    \/ \E w \in Workers : StartNow(w)
    \/ \E w \in Workers : StartStore(w)
    \/ \E w \in Workers : ApiStartReturn(w)
    \/ \E w \in Workers : ApiEnd(w)
    \/ \E w \in Workers : EndSince(w)
    \/ \E w \in Workers : EndStore(w)
    \/ \E w \in Workers : EndExecOk(w)
    \/ \E w \in Workers : ApiEndReturn(w)

NoFailSpec == Init /\ [][NoFailNext]_vars

(* ------------------------ the hooks of the runner ---------------------- *)

\* the scenarios of the feature files: name |-> the texts of its steps
ScenarioSteps(name) ==
    CASE name = "a" -> <<"b-c">>
      [] name = "a-b" -> <<"c">>
      [] OTHER -> <<>>

ScenarioNames == {a[1] : a \in StepArgs}

\* (variant: a delete that removes nothing)
DeleteNothing(m, k) == m

\* delete(stepIDs, step)
MapDelete(m, k) == [x \in DOMAIN m \ {k} |-> m[x]]

\* godog runs a scenario on worker w: InitializeScenario makes the closure
\* variables, and the before-scenario hook sets scenarioName = s.Name
ScenarioBegin(w) ==
    /\ mainPc = "running"
    /\ pc[w] = "idle"
    /\ \E name \in ScenarioNames :
          /\ counter + Cardinality({x \in Workers : pc[x] = "step_before"})
                 + Len(ScenarioSteps(name)) <= MaxStarts
          /\ scenarioName' = [scenarioName EXCEPT ![w] = name]
    /\ stepIDs' = [stepIDs EXCEPT ![w] = EmptyMap]
    /\ curStep' = [curStep EXCEPT ![w] = 1]
    /\ pc' = [pc EXCEPT ![w] = "step_before"]
    /\ UNCHANGED <<durable, ledgerVars, now, ticks, frame, returned, matchedEnds, nEnds,
                   hookStart, hookLog, mainVars>>

\* the before-step hook: stepID := agent.Start(scenarioName, step.Text)
BeforeStep(w) ==
    /\ pc[w] = "step_before"
    /\ EnterStart(w, scenarioName[w], ScenarioSteps(scenarioName[w])[curStep[w]])
    /\ UNCHANGED <<durable, startTimes, durations, db, dbOpen, now, ticks, returned,
                   matchedEnds, nEnds, hookVars, mainVars>>

\* the before-step hook, after Start returned: stepIDs[step] = stepID; the
\* runner then calls the step's function
BeforeStepReturn(w) ==
    /\ mainPc = "running"
    /\ pc[w] = "start_ret"
    /\ stepIDs' = [stepIDs EXCEPT ![w] = MapStore(stepIDs[w], curStep[w], frame[w].stepID)]
    /\ LET call == [id |-> frame[w].stepID, scenario |-> frame[w].scenarioName,
                    text |-> frame[w].stepText]
       IN /\ hookStart' = [hookStart EXCEPT ![w] = call]
          /\ hookLog' = hookLog \cup {call}
    /\ frame' = [frame EXCEPT ![w] = NoFrame]
    /\ pc' = [pc EXCEPT ![w] = "step_body"]
    /\ UNCHANGED <<durable, ledgerVars, now, ticks, returned, matchedEnds, nEnds,
                   scenarioName, curStep, mainVars>>

\* the runner fires no before-step hook for the step and goes on to its
\* after-step hook
StepWithoutBefore(w) ==
    /\ pc[w] = "step_before"
    /\ pc' = [pc EXCEPT ![w] = "step_after"]
    /\ UNCHANGED <<durable, ledgerVars, now, ticks, frame, returned, matchedEnds, nEnds,
                   hookVars, mainVars>>

\* the step's function returns, after whatever time it took
StepBody(w) ==
    /\ pc[w] = "step_body"
    /\ pc' = [pc EXCEPT ![w] = "step_after"]
    /\ UNCHANGED <<durable, ledgerVars, now, ticks, frame, returned, matchedEnds, nEnds,
                   hookVars, mainVars>>

\* the scenario's next step, or its end
StepDone(w) ==
    /\ hookStart' = [hookStart EXCEPT ![w] = NoStart]
    /\ UNCHANGED hookLog
    /\ IF curStep[w] < Len(ScenarioSteps(scenarioName[w]))
       THEN /\ curStep' = [curStep EXCEPT ![w] = curStep[w] + 1]
            /\ pc' = [pc EXCEPT ![w] = "step_before"]
            /\ UNCHANGED scenarioName
       ELSE /\ curStep' = [curStep EXCEPT ![w] = 0]
            /\ pc' = [pc EXCEPT ![w] = "idle"]
            /\ scenarioName' = [scenarioName EXCEPT ![w] = ""]

\* the after-step hook: if stepID, ok := stepIDs[step]; ok { agent.End(...) }
AfterStep(w) ==
    /\ pc[w] = "step_after"
    /\ curStep[w] \in DOMAIN stepIDs[w]
    /\ IF durable
       THEN EnterEnd(w, stepIDs[w][curStep[w]], scenarioName[w],
                     ScenarioSteps(scenarioName[w])[curStep[w]])
       ELSE EnterEnd(w, stepIDs[w][curStep[w]], "", "")
    /\ UNCHANGED <<durable, ledgerVars, now, ticks, returned, nEnds, hookVars, mainVars>>

\* the after-step hook finds no entry for the step: End is not called
AfterStepNoEntry(w) ==
    /\ pc[w] = "step_after"
    /\ curStep[w] \notin DOMAIN stepIDs[w]
    /\ StepDone(w)
    /\ UNCHANGED <<durable, ledgerVars, now, ticks, frame, returned, matchedEnds, nEnds,
                   stepIDs, mainVars>>

\* the after-step hook, after End returned: delete(stepIDs, step)
AfterStepReturn(w) ==
    /\ mainPc = "running"
    /\ pc[w] = "end_ret"
    /\ stepIDs' = [stepIDs EXCEPT ![w] = MapDelete(stepIDs[w], curStep[w])]
    /\ frame' = [frame EXCEPT ![w] = NoFrame]
    /\ StepDone(w)
    /\ UNCHANGED <<durable, ledgerVars, now, ticks, returned, matchedEnds, nEnds,
                   mainVars>>

(* ------------------------------- main() -------------------------------- *)

\* Report of the in-memory variant: one line per entry of v.durations
ReportDurations(m) == {[step_id |-> k, duration |-> m[k]] : k \in DOMAIN m}

\* Report of the SQLite variant: one line per row the query returns
ReportRows(rows) ==
    {[step_id |-> rows[i].step_id, scenario_name |-> rows[i].scenario_name,
      step_text |-> rows[i].step_text, duration_ms |-> rows[i].duration_ms,
      created_at |-> rows[i].created_at] : i \in DOMAIN rows}

\* the exit code main() ends with: os.Exit(status) when status != 0, and 0
\* when main returns
\* (variant: the status dropped)
ExitAlwaysZero(st) == 0
ExitCodeOf(st) == IF st # 0 THEN st ELSE 0

\* (variant: a constructor that goes on after an error)
MainNewAgentIgnoringErrors ==
    /\ mainPc = "new"
    /\ \E result \in {"ok", "open failed", "create failed"} :
          /\ agentSet' = TRUE
          /\ dbOpen' = (result = "ok")
          /\ mainPc' = "suite"
          /\ UNCHANGED exitCode
    /\ UNCHANGED <<durable, counter, startTimes, durations, db, now, ticks, callVars,
                   hookVars, status, output, journal, run>>

\* agent = NewVectorClockAgent("step_timings.db"): sql.Open and CREATE TABLE
\* IF NOT EXISTS; either failing panics
MainNewAgent ==
    /\ mainPc = "new"
    /\ \E result \in {"ok", "open failed", "create failed"} :
          IF result = "ok"
          THEN /\ agentSet' = TRUE
               /\ dbOpen' = TRUE
               /\ mainPc' = "suite"
               /\ UNCHANGED exitCode
          ELSE /\ mainPc' = "panicked"
               /\ exitCode' = PanicExitCode
               /\ UNCHANGED <<agentSet, dbOpen>>
    /\ UNCHANGED <<durable, counter, startTimes, durations, db, now, ticks, callVars,
                   hookVars, status, output, journal, run>>

\* status := suite.Run() is called
SuiteRun ==
    /\ mainPc = "suite"
    /\ mainPc' = "running"
    /\ UNCHANGED <<durable, ledgerVars, now, ticks, callVars, hookVars, agentSet, status,
                   exitCode, output, journal, run>>

\* suite.Run() returns, every scenario having ended
SuiteDone ==
    /\ mainPc = "running"
    /\ \A w \in Workers : pc[w] = "idle"
    /\ \E st \in SuiteStatuses : status' = st
    /\ mainPc' = "report"
    /\ UNCHANGED <<durable, ledgerVars, now, ticks, callVars, hookVars, agentSet,
                   exitCode, output, journal, run>>

\* (variant: main exits after Report, without Close)
MainReportThenExit ==
    /\ mainPc = "report"
    /\ IF durable
       THEN \E fails \in BOOLEAN :
              /\ output' = IF fails THEN {} ELSE ReportRows(db)
              /\ journal' = Append(journal, IF fails THEN "Report failed" ELSE "Report")
       ELSE /\ output' = ReportDurations(durations)
            /\ journal' = Append(journal, "Report")
    /\ mainPc' = "exit"
    /\ UNCHANGED <<durable, ledgerVars, now, ticks, callVars, hookVars, agentSet, status,
                   exitCode, run>>

\* agent.Report(); the SQLite variant prints nothing when the query fails
MainReport ==
    /\ mainPc = "report"
    /\ IF durable
       THEN \E fails \in BOOLEAN :
              /\ output' = IF fails THEN {} ELSE ReportRows(db)
              /\ journal' = Append(journal, IF fails THEN "Report failed" ELSE "Report")
       ELSE /\ output' = ReportDurations(durations)
            /\ journal' = Append(journal, "Report")
    /\ mainPc' = IF durable THEN "close" ELSE "exit"
    /\ UNCHANGED <<durable, ledgerVars, now, ticks, callVars, hookVars, agentSet, status,
                   exitCode, run>>

\* agent.Close(): v.db.Close(), whose error main() drops
MainClose ==
    /\ mainPc = "close"
    /\ dbOpen' = FALSE
    /\ \E err \in BOOLEAN :
          journal' = Append(journal, IF err THEN "Close failed" ELSE "Close")
    /\ mainPc' = "exit"
    /\ UNCHANGED <<durable, counter, startTimes, durations, db, now, ticks, callVars,
                   hookVars, agentSet, status, exitCode, output, run>>

\* if status != 0 { os.Exit(status) }; otherwise main returns
MainExit ==
    /\ mainPc = "exit"
    /\ exitCode' = ExitCodeOf(status)
    /\ mainPc' = "exited"
    /\ UNCHANGED <<durable, ledgerVars, now, ticks, callVars, hookVars, agentSet, status,
                   output, journal, run>>

\* the state of a fresh process; the in-memory variant builds its agent in
\* the package-level initializer, before main()
FreshProcess(dur) ==
    [counter |-> 0, agentSet |-> ~dur, mainPc |-> IF dur THEN "new" ELSE "suite"]

\* the program is run again: a new process, the database file as it was
\* left (the in-memory variant leaves nothing behind to run again on)
RunAgain ==
    /\ durable
    /\ mainPc \in {"exited", "panicked"}
    /\ run < MaxRuns
    /\ run' = run + 1
    /\ counter' = FreshProcess(durable).counter
    /\ agentSet' = FreshProcess(durable).agentSet
    /\ mainPc' = FreshProcess(durable).mainPc
    /\ startTimes' = EmptyMap
    /\ durations' = EmptyMap
    /\ dbOpen' = FALSE
    /\ returned' = <<>>
    /\ matchedEnds' = {}
    /\ status' = 0
    /\ exitCode' = -1
    /\ output' = {}
    /\ journal' = <<>>
    /\ hookLog' = {}
    /\ UNCHANGED <<durable, db, now, ticks, pc, frame, nEnds, scenarioName, stepIDs,
                   curStep, hookStart>>

\* the first run of the program: no database file yet
MainInit ==
    /\ durable \in BOOLEAN
    /\ counter = FreshProcess(durable).counter
    /\ agentSet = FreshProcess(durable).agentSet
    /\ mainPc = FreshProcess(durable).mainPc
    /\ startTimes = EmptyMap
    /\ durations = EmptyMap
    /\ db = <<>>
    /\ dbOpen = FALSE
    /\ now = 0
    /\ ticks = 0
    /\ pc = [w \in Workers |-> "idle"]
    /\ frame = [w \in Workers |-> NoFrame]
    /\ returned = <<>>
    /\ matchedEnds = {}
    /\ nEnds = 0
    /\ status = 0
    /\ exitCode = -1
    /\ scenarioName = [w \in Workers |-> ""]
    /\ stepIDs = [w \in Workers |-> EmptyMap]
    /\ curStep = [w \in Workers |-> 0]
    /\ hookStart = [w \in Workers |-> NoStart]
    /\ hookLog = {}
    /\ output = {}
    /\ journal = <<>>
    /\ run = 1

MainNext ==
    \/ Tick
    \/ MainNewAgent
    \/ SuiteRun
    \/ \E w \in Workers : ScenarioBegin(w)
    \/ \E w \in Workers : BeforeStep(w)
    \/ \E w \in Workers : StepWithoutBefore(w)
    \/ \E w \in Workers : StartNow(w)
    \/ \E w \in Workers : StartStore(w)
    \/ \E w \in Workers : BeforeStepReturn(w)
    \/ \E w \in Workers : StepBody(w)
    \/ \E w \in Workers : AfterStep(w)
    \/ \E w \in Workers : AfterStepNoEntry(w)
    \/ \E w \in Workers : EndSince(w)
    \/ \E w \in Workers : EndStore(w)
    \/ \E w \in Workers : EndExec(w)
    \/ \E w \in Workers : AfterStepReturn(w)
    \/ SuiteDone
    \/ MainReport
    \/ MainClose
    \/ MainExit
    \/ RunAgain

MainSpec == MainInit /\ [][MainNext]_vars

(* ============================== claims ================================ *)

ReturnedIDs == {returned[i].id : i \in DOMAIN returned}

\* C1: the StepIDs returned by the Start calls on one ledger are pairwise
\* distinct, whatever the arguments and the interleaving of the callers.
C1_StepIDsDistinct ==
    \A i, j \in DOMAIN returned : i # j => returned[i].id # returned[j].id

\* two Starts returned in the order opposite to that of their counter values
\* (so they overlapped), both formatted from the same prefix
C1_Witness ==
    /\ Len(returned) = 2
    /\ returned[1].id = "a-b-c-2"
    /\ returned[2].id = "a-b-c-1"

\* C2: an End whose StepID has no start-time entry returns at once and
\* changes neither map, nor the counter, nor the store; no duration and no
\* row exists for that StepID afterwards.
C2_EndUnknownNoEffect ==
    [][\A w \in Workers :
          (/\ pc[w] = "idle"
           /\ pc'[w] \in EndPcs
           /\ frame'[w].stepID \notin DOMAIN startTimes)
          => /\ pc'[w] = "end_ret"
             /\ UNCHANGED <<startTimes, durations, counter, db>>
             /\ frame'[w].stepID \notin DOMAIN durations'
             /\ RowsOf(db', frame'[w].stepID) = {}]_vars

\* an End has returned on a miss while the ledger holds other steps
C2_Witness ==
    \E w \in Workers :
        /\ pc[w] = "end_ret"
        /\ frame[w].outcome = "miss"
        /\ frame[w].stepID \notin DOMAIN startTimes
        /\ DOMAIN durations # {}
        /\ db # <<>>

\* C3: when the runner's workers have issued N Start/End pairs, each End
\* with the StepID of its own Start, then once the run is over the duration
\* map holds exactly N entries, one for each StepID returned.
C3_NoLostPair ==
    mainPc \in {"report", "close", "exit", "exited"}
        => /\ DOMAIN durations = ReturnedIDs
           /\ Cardinality(DOMAIN durations) = Len(returned)

\* a run is over in which two steps overlapped
C3_Witness ==
    /\ mainPc = "report"
    /\ Len(returned) = 2
    /\ returned[1].id = "a-b-c-2"
    /\ Cardinality(DOMAIN durations) = 2

\* C4: the store never holds two rows with one StepID; an insert for a
\* StepID that already has a row leaves the store as it is, with exactly one
\* row for it, and End returns normally.
C4_InsertIdempotent ==
    [][/\ \A i, j \in DOMAIN db' : db'[i].step_id = db'[j].step_id => i = j
       /\ \A w \in Workers :
             (/\ pc[w] = "end_exec"
              /\ pc'[w] # "end_exec"
              /\ RowsOf(db, frame[w].stepID) # {})
             => /\ pc'[w] = "end_ret"
                /\ db' = db
                /\ Cardinality(RowsOf(db', frame[w].stepID)) = 1]_vars

\* an End has run its insert without error for a StepID whose row another
\* End, called with other arguments, had written before
C4_Witness ==
    \E w \in Workers :
        /\ pc[w] = "end_ret"
        /\ frame[w].outcome = "ok"
        /\ \E i \in DOMAIN db :
              /\ db[i].step_id = frame[w].stepID
              /\ db[i].scenario_name # frame[w].scenarioName

\* C5: a StepID is never reused: the insert of the End paired with a Start
\* finds no row with the StepID that Start returned and adds one, also when
\* the store was populated by an earlier run of the program.
C5_InsertFindsNoRow ==
    [][\A w \in Workers :
          (/\ pc[w] = "end_exec"
           /\ pc'[w] = "end_ret"
           /\ frame'[w].outcome = "ok")
          => /\ RowsOf(db, frame[w].stepID) = {}
             /\ Len(db') = Len(db) + 1]_vars

\* C6: the duration End records for a StepID is the clock value End read
\* minus the one Start stored; it is not negative, and not less than the
\* time from Start's return to the call of End.
C6_DurationIsElapsed ==
    [][\A w \in Workers :
          (pc[w] = "end_store" /\ pc'[w] # "end_store")
          => LET id == frame[w].stepID
                 d == durations'[id]
             IN /\ d = frame[w].endTime - startTimes[id]
                /\ d >= 0
                /\ frame[w].endTime >= frame[w].calledAt
                /\ \A i \in DOMAIN returned :
                      (returned[i].id = id /\ returned[i].at <= frame[w].calledAt)
                      => d >= frame[w].calledAt - returned[i].at]_vars

\* an End called after time went by since its Start returned has recorded a
\* duration longer than that time
C6_Witness ==
    \E w \in Workers :
        /\ pc[w] = "end_ret"
        /\ frame[w].outcome = "ok"
        /\ \E i \in DOMAIN returned :
              /\ returned[i].id = frame[w].stepID
              /\ returned[i].at < frame[w].calledAt
              /\ frame[w].stepID \in DOMAIN durations
              /\ durations[frame[w].stepID] > frame[w].calledAt - returned[i].at

\* C7: when the insert of End fails, the duration of the StepID stays in the
\* duration map, the maps, the counter and the store are as they were, and
\* End returns normally.
C7_InsertFailureNonFatal ==
    [][\A w \in Workers :
          (/\ pc[w] = "end_exec"
           /\ pc'[w] # "end_exec"
           /\ frame'[w].outcome = "dberr")
          => /\ pc'[w] = "end_ret"
             /\ frame[w].stepID \in DOMAIN durations'
             /\ UNCHANGED <<startTimes, durations, counter, db>>]_vars

\* an End has returned after a failed insert: its StepID has a duration and
\* no row, next to another step that has both
C7_Witness ==
    \E w \in Workers :
        /\ pc[w] = "end_ret"
        /\ frame[w].outcome = "dberr"
        /\ frame[w].stepID \in DOMAIN durations
        /\ RowsOf(db, frame[w].stepID) = {}
        /\ db # <<>>

\* C8: the process exits with the status suite.Run() returned, whatever
\* Report and Close did.
C8_ExitCodeIsSuiteStatus ==
    mainPc = "exited" => exitCode = status

\* the process has exited with the status of a failed suite after Report
\* could not read the store and Close returned an error
C8_Witness ==
    /\ mainPc = "exited"
    /\ status = 1
    /\ exitCode = 1
    /\ journal = <<"Report failed", "Close failed">>

\* C9: Report is called only when the suite run is over, and from then on no
\* Start or End executes; the SQLite variant calls Close exactly once, after
\* Report and before the process exits, whatever the suite's status.
C9_PhaseOrder ==
    [][/\ journal' # <<>>
          => /\ mainPc' \in {"close", "exit", "exited"}
             /\ \A w \in Workers : pc'[w] = "idle"
             /\ journal'[1] \in {"Report", "Report failed"}
       /\ (mainPc \in {"report", "close", "exit", "exited"} /\ run' = run)
          => UNCHANGED <<counter, startTimes, durations, db, pc, frame, returned>>
       /\ mainPc' = "exited"
          => /\ Len(journal') = IF durable THEN 2 ELSE 1
             /\ durable => journal'[2] \in {"Close", "Close failed"}]_vars

\* the SQLite variant has exited after a failed suite that recorded steps
C9_Witness ==
    /\ durable
    /\ mainPc = "exited"
    /\ status = 2
    /\ Len(journal) = 2
    /\ Len(returned) = 2

\* C10: when opening the store or creating its table fails, the process
\* dies at once: no agent exists, no Start, End, Report or Close has run or
\* will run in that run; and the suite never runs on a store that is not open.
C10_InitFailureFatal ==
    [][/\ mainPc' = "panicked"
          => /\ ~agentSet'
             /\ ~dbOpen'
             /\ exitCode' = PanicExitCode
             /\ counter' = 0
             /\ returned' = <<>>
             /\ journal' = <<>>
             /\ startTimes' = EmptyMap
             /\ durations' = EmptyMap
             /\ \A w \in Workers : pc'[w] = "idle"
       /\ (mainPc = "panicked" /\ run' = run)
          => UNCHANGED <<durable, ledgerVars, callVars, hookVars, mainVars>>
       /\ (durable /\ mainPc' \in {"suite", "running"})
          => agentSet' /\ dbOpen']_vars

\* the second run of the program has died in the constructor, on a store the
\* first run populated
C10_Witness ==
    /\ mainPc = "panicked"
    /\ run = 2
    /\ db # <<>>

\* the step of main() in which Report ran to its end, its query having
\* succeeded
ReportStep == mainPc = "report" /\ journal' = Append(journal, "Report")

\* C11: Report, called once every scenario has ended, changes neither map,
\* nor the counter, nor the store, and lists one entry for every StepID with
\* a duration (in-memory variant) or for every row (durable variant); after
\* Start(s, t) returned id and the End for id completed, the output has an
\* entry with id, s, t and the duration recorded for id (in whole
\* milliseconds in the durable variant, and unless the insert left no row).
C11_ReportListsRecords ==
    [][ReportStep
          => /\ UNCHANGED <<counter, startTimes, durations, db, dbOpen>>
             /\ IF durable
                THEN /\ Cardinality(output') = Len(db)
                     /\ \A i \in DOMAIN db : \E e \in output' : e.step_id = db[i].step_id
                ELSE /\ Cardinality(output') = Cardinality(DOMAIN durations)
                     /\ \A id \in DOMAIN durations :
                           \E e \in output' : e.step_id = id /\ e.duration = durations[id]
             /\ \A call \in hookLog :
                   (call.id \in DOMAIN durations /\ (durable => RowsOf(db, call.id) # {}))
                   => \E e \in output' :
                         /\ e.step_id = call.id
                         /\ durable => /\ e.scenario_name = call.scenario
                                       /\ e.step_text = call.text
                                       /\ e.duration_ms = Milliseconds(durations[call.id])]_vars

\* C12: a step record is mutated once, on End: once End has stored a duration
\* for a StepID, no later operation (another Start, another End with the same
\* or another StepID, Report) changes the duration stored for that StepID.
C12_DurationWrittenOnce ==
    [][\A id \in DOMAIN durations :
          /\ id \in DOMAIN durations'
          /\ durations'[id] = durations[id]]_vars

\* the workers whose Start has taken its counter value and not yet stored
StartsInHand == {w \in Workers : pc[w] \in {"start_now", "start_store"}}

\* the StepIDs handed out so far: those of the Starts that stored, and those
\* in hand
HandedOut == ReturnedIDs \cup {frame[w].stepID : w \in StartsInHand}

\* the StepIDs that carry the counter value k
IDsNumbered ==
    [k \in 1..MaxStarts |-> {a[1] \o "-" \o a[2] \o "-" \o ToString(k) : a \in StepArgs}]

\* C13: the first counter value handed out is 1 and the counter is never
\* reset or decreased during a run; the StepID Start(s, t) returns is
\* s-t-k, k being the value the atomic increment produced; the counter equals
\* the number of Starts made, each of the values 1..counter has been handed
\* out exactly once under every interleaving, and nothing but Start (End and
\* Report in particular) changes the counter.
C13_CounterCountsStarts ==
    [][/\ (/\ counter = Len(returned) + Cardinality(StartsInHand)
           /\ counter = Cardinality(HandedOut)
           /\ \A k \in 1..counter : HandedOut \cap IDsNumbered[k] # {}
           /\ \A id \in HandedOut : \E k \in 1..counter : id \in IDsNumbered[k])'
       /\ run' = run => counter' >= counter
       /\ run' # run => counter' = 0
       /\ \A w \in Workers :
             (pc[w] \notin StartPcs /\ pc'[w] = "start_now")
             => /\ counter' = counter + 1
                /\ frame'[w].stepID =
                      frame'[w].scenarioName \o "-" \o frame'[w].stepText
                         \o "-" \o ToString(counter')
       /\ (run' = run /\ \A w \in Workers : ~(pc[w] \notin StartPcs /\ pc'[w] = "start_now"))
          => counter' = counter]_vars

\* two overlapping Starts were numbered 1 and 2 and returned in the opposite
\* order, their Ends completed, and Report has run
C13_Witness ==
    /\ counter = 2
    /\ Len(returned) = 2
    /\ returned[1].id = "a-b-c-2"
    /\ DOMAIN durations = {"a-b-c-1", "a-b-c-2"}
    /\ mainPc = "exited"

\* C14: a StepID only moves forward through unstarted, started, ended: every
\* key of the duration map is a key of the start-time map, and no step removes
\* a key from either map.
C14_LifecycleForward ==
    [][/\ DOMAIN durations' \subseteq DOMAIN startTimes'
       /\ DOMAIN startTimes \subseteq DOMAIN startTimes'
       /\ DOMAIN durations \subseteq DOMAIN durations']_vars

\* one step is ended, another is started and not ended, and a further End is
\* in hand
C14_Witness ==
    /\ DOMAIN startTimes = {"a-b-c-1", "a-b-c-2"}
    /\ DOMAIN durations = {"a-b-c-1"}
    /\ \E w \in Workers : pc[w] = "end_store"

\* C15: Start and End for different StepIDs do not interfere: a step of Start
\* changes only the counter and adds one start-time entry under a key that was
\* not present, leaving every existing start-time entry, the duration map and
\* the store as they were; a step of End(id) changes only the duration entry
\* and the store row of id, leaving the counter, the start-time map and the
\* duration entries and rows of every other StepID as they were.
C15_StartEndFrame ==
    [][\A w \in Workers :
          pc'[w] # pc[w]
          => IF pc'[w] \in StartPcs
             THEN /\ durations' = durations
                  /\ db' = db
                  /\ \A id \in DOMAIN startTimes :
                        id \in DOMAIN startTimes' /\ startTimes'[id] = startTimes[id]
                  /\ IF pc'[w] = "start_now" THEN counter' # counter ELSE counter' = counter
                  /\ IF pc'[w] = "start_ret"
                     THEN /\ frame[w].stepID \notin DOMAIN startTimes
                          /\ DOMAIN startTimes' = DOMAIN startTimes \cup {frame[w].stepID}
                     ELSE DOMAIN startTimes' = DOMAIN startTimes
             ELSE IF pc'[w] \in EndPcs
             THEN /\ counter' = counter
                  /\ startTimes' = startTimes
                  /\ DOMAIN durations' \subseteq DOMAIN durations \cup {frame'[w].stepID}
                  /\ \A id \in DOMAIN durations \ {frame'[w].stepID} :
                        id \in DOMAIN durations' /\ durations'[id] = durations[id]
                  /\ Len(db') >= Len(db)
                  /\ \A i \in DOMAIN db : db'[i] = db[i]
                  /\ \A i \in DOMAIN db' \ DOMAIN db : db'[i].step_id = frame'[w].stepID
             ELSE UNCHANGED <<counter, startTimes, durations, db>>]_vars

\* an End has stored the duration and the row of one step beside the duration
\* and the row of another
C15_Witness ==
    /\ durable
    /\ DOMAIN durations = {"a-b-c-1", "a-b-c-2"}
    /\ Len(db) = 2
    /\ \E w \in Workers : pc[w] = "end_ret" /\ frame[w].outcome = "ok"

\* C16: hook correlation: the after-step hook of a step calls End with exactly
\* the StepID that Start returned in the before-step hook of that same step
\* (in the durable variant also with the scenario name and step text passed
\* to that Start), at most once per step, and then removes the step's
\* correlation entry; an after-step hook that finds no correlation entry does
\* not call End.
C16_HookCorrelation ==
    [][\A w \in Workers :
          /\ (pc[w] = "step_after" /\ pc'[w] \in EndPcs)
             => /\ hookStart[w] # NoStart
                /\ frame'[w].stepID = hookStart[w].id
                /\ durable => /\ frame'[w].scenarioName = hookStart[w].scenario
                              /\ frame'[w].stepText = hookStart[w].text
          /\ (pc[w] = "step_after" /\ curStep[w] \notin DOMAIN stepIDs[w])
             => pc'[w] \notin EndPcs
          /\ (mainPc = "running" /\ pc[w] = "end_ret" /\ pc'[w] # "end_ret")
             => /\ curStep[w] \notin DOMAIN stepIDs'[w]
                /\ pc'[w] \in {"step_before", "idle"}
                /\ curStep'[w] # curStep[w]
          /\ (pc'[w] = "step_after" /\ pc[w] # "step_after")
             => pc[w] \in {"step_before", "step_body"}]_vars

\* one worker's after-step hook has called End with the StepID of its step
\* while the other's found no entry to end
C16_Witness ==
    \E w1, w2 \in Workers :
        /\ w1 # w2
        /\ pc[w1] = "end_ret"
        /\ frame[w1].outcome = "ok"
        /\ frame[w1].stepID = hookStart[w1].id
        /\ pc[w2] = "step_after"
        /\ hookStart[w2] = NoStart

\* C17: when End(id, s, t) inserts a new row into the store, the row has
\* step_id = id, scenario_name = s, step_text = t, and duration_ms is the
\* duration that End just stored in the duration map, truncated to whole
\* milliseconds.
C17_RowMatchesEnd ==
    [][\A w \in Workers :
          (pc[w] = "end_exec" /\ pc'[w] = "end_ret" /\ Len(db') = Len(db) + 1)
          => LET row == db'[Len(db')]
             IN /\ row.step_id = frame[w].stepID
                /\ row.scenario_name = frame[w].scenarioName
                /\ row.step_text = frame[w].stepText
                /\ row.duration_ms * NsPerMs <= frame[w].duration
                /\ frame[w].duration < (row.duration_ms + 1) * NsPerMs]_vars

\* an End that measured two clock ticks has inserted its row, whose
\* duration_ms is below the measured duration
C17_Witness ==
    \E w \in Workers :
        /\ pc[w] = "end_ret"
        /\ frame[w].outcome = "ok"
        /\ frame[w].duration = 2 * TickNs
        /\ \E i \in DOMAIN db :
              /\ db[i].step_id = frame[w].stepID
              /\ db[i].scenario_name = frame[w].scenarioName
              /\ db[i].duration_ms * NsPerMs < frame[w].duration

\* End is called by worker w for a StepID that has a duration
EndCalledAgain(w) ==
    /\ pc[w] \notin EndPcs
    /\ pc'[w] \in EndPcs
    /\ frame'[w].stepID \in DOMAIN durations

\* worker w's End stores its duration over one that is there
EndStoresAgain(w) ==
    /\ pc[w] = "end_store"
    /\ pc'[w] # "end_store"
    /\ frame[w].stepID \in DOMAIN durations

\* worker w's End runs its insert with a row for its StepID there
EndInsertsAgain(w) ==
    /\ pc[w] = "end_exec"
    /\ pc'[w] = "end_ret"
    /\ RowsOf(db, frame[w].stepID) # {}

RowStepIDs == {db[i].step_id : i \in DOMAIN db}

\* the StepIDs of the Ends that have found their start time and not yet
\* stored their duration
EndsBeforeStore ==
    {frame[w].stepID : w \in {v \in Workers : pc[v] \in {"end_since", "end_store"}}}

\* the StepIDs of the Ends that have stored their duration and not yet run
\* their insert
EndsBeforeExec == {frame[w].stepID : w \in {v \in Workers : pc[v] = "end_exec"}}

\* C19: the durable and the in-memory variant record the same set of steps:
\* on a store that was empty at construction and with no insert failing, once
\* the calls made have completed the step_id values of the rows are the keys
\* of the duration map, and in both variants these keys are the same function
\* of the calls: the StepIDs that End was called with after their Start had
\* stored.
C19_SameStepsRecorded ==
    /\ DOMAIN durations \subseteq matchedEnds
    /\ matchedEnds \ DOMAIN durations \subseteq EndsBeforeStore
    /\ IF durable
       THEN /\ RowStepIDs \subseteq DOMAIN durations
            /\ DOMAIN durations \ RowStepIDs \subseteq EndsBeforeExec
            /\ Len(db) = Cardinality(RowStepIDs)
       ELSE db = <<>>

\* the durable ledger at rest after two Starts and two Ends, one of which
\* matched: one duration and one row, of the same StepID
C19_Witness ==
    /\ durable
    /\ \A w \in Workers : pc[w] = "idle"
    /\ Len(returned) = 2
    /\ nEnds = 2
    /\ matchedEnds = {"a-b-c-2"}
    /\ DOMAIN durations = {"a-b-c-2"}
    /\ RowStepIDs = {"a-b-c-2"}

====
